---- MODULE Spec2Model ----
(***************************************************************************)
(* Model of the e-commerce backend: the cart routes (routes/carts), the    *)
(* cart view (routes/views), the catalog routes (routes/products) and the  *)
(* real-time channel of app.js.                                            *)
(*                                                                         *)
(* The Mongoose models (models/Cart.model, models/Product.model) are not   *)
(* part of the available sources; the cart methods the routes call         *)
(* (addProduct, removeProduct, updateCart, updateProductQuantity,          *)
(* clearCart) follow section 4.3 of the specification.                     *)
(***************************************************************************)
EXTENDS Integers, Sequences, FiniteSets, TLC

\* ------------------------------------------------------------------ bounds
SeedProducts == 2   \* products in the catalog when the server starts
MaxNew == 1         \* products created after the start
MaxClients == 2     \* real-time clients
MaxRequests == 2    \* catalog requests and socket events served
MaxCarts == 1       \* carts the store ever holds
MaxUnits == 3       \* most units (sum of quantities) a cart holds
MaxPage == 4        \* the largest page number a listing request asks for
MaxBoots == 3       \* times the server process is started

\* ------------------------------------------------------------ identifiers
\* Identifiers are ObjectId strings. BadId stands for every string that is
\* not a well-formed ObjectId (Mongoose raises CastError on it); the other
\* values are well-formed identifiers, assigned or not.
BadId == 0
NullRef == -1       \* a populated reference whose document is gone (null)
SeedIds == 1..SeedProducts
ProductIds == 1..(SeedProducts + MaxNew)
CartIds == 1..MaxCarts
Clients == 1..MaxClients
UnknownCart == MaxCarts + 1     \* a well-formed id that names no cart

\* ------------------------------------------------------- JSON body values
\* A value of req.body.quantity: a JSON number that is an integer (IntV), a
\* JSON number n + 1/2 (FracV), a numeric string (StrV), a non-numeric
\* string (NaNStr) or an absent field (Undef).
IntV(n) == [t |-> "int", v |-> n]
FracV(n) == [t |-> "frac", v |-> n]
StrV(n) == [t |-> "str", v |-> n]
NaNStr == [t |-> "nanstr", v |-> 0]
FracStr(n) == [t |-> "fracstr", v |-> n]    \* the string "n.5"
Undef == [t |-> "undef", v |-> 0]

QuantityInputs ==
    {IntV(n) : n \in -1..MaxUnits} \cup {FracV(1), StrV(2), NaNStr, Undef}

\* The quantities tried inside an updateCart body.
BodyQuantities == {IntV(0), IntV(1), FracV(1)}

\* parseInt(x): the integer part of a number or numeric string, NaN otherwise.
NaN == [nan |-> TRUE, v |-> 0]
Num(n) == [nan |-> FALSE, v |-> n]
ParseInt(x) ==
    CASE x.t = "int" -> Num(x.v)
      [] x.t = "frac" -> Num(x.v)
      [] x.t = "str" -> Num(x.v)
      [] x.t = "fracstr" -> Num(x.v)
      [] OTHER -> NaN

\* a || d : NaN and 0 are falsy.
OrDefault(r, d) == IF r.nan \/ r.v = 0 THEN d ELSE r.v

\* Number.isInteger(x)
NumberIsInteger(x) == x.t = "int"

VARIABLES
    products,   \* the product collection: a set of documents
    carts,      \* the cart collection: id of each stored cart -> its line items
    resp,       \* the answer to the last cart request served
    nextId,     \* the identifier (and creation time) of the next product
    clients,    \* each real-time client's socket: "off", "connecting"
                \* (connected, listeners not yet registered), "open", "closed"
    handlers,   \* the catalog requests and socket events received so far
    out,        \* the messages the server sent in its last step, in order
    listing,    \* the product listing request being served and its answer
    boot,       \* the server process: where startServer is
    serving     \* the cart mutations served concurrently, each with the
                \* cart document its handler holds

vars == <<products, carts, resp, nextId, clients, handlers, out, listing, boot,
          serving>>
cartVars == <<carts, resp>>
rtVars == <<nextId, clients, handlers, out>>
auxVars == <<listing, boot, serving>>

\* ---------------------------------------------------------------- catalog
Price(id) == 100 * id + 99      \* in cents

ProductDoc(id) == [id |-> id, code |-> id, createdAt |-> id]

ProductExists(pid) == \E d \in products : d.id = pid

\* ------------------------------------------------------------- cart model
Item(pid, q) == [product |-> pid, quantity |-> q]

Ok(items) == [ok |-> TRUE, err |-> "", items |-> items]
Err(name) == [ok |-> FALSE, err |-> name, items |-> <<>>]

HasProduct(items, pid) == \E i \in 1..Len(items) : items[i].product = pid

FirstIndex(items, pid) ==
    CHOOSE i \in 1..Len(items) :
        /\ items[i].product = pid
        /\ \A j \in 1..(i - 1) : items[j].product # pid

\* Product.findById(pid) inside a cart method: CastError on a malformed id,
\* a failure when the product is absent.
ResolveProduct(pid) ==
    IF pid = BadId THEN "CastError"
    ELSE IF ~ProductExists(pid) THEN "ProductNotFound"
    ELSE ""

CartAddProduct(items, pid, quantity) ==
    IF ResolveProduct(pid) # "" THEN Err(ResolveProduct(pid))
    ELSE IF HasProduct(items, pid)
    THEN Ok([items EXCEPT ![FirstIndex(items, pid)].quantity = @ + quantity])
    ELSE Ok(Append(items, Item(pid, quantity)))

\* removeProduct keeps the line items of every other product.
CartRemoveProduct(items, pid) ==
    Ok(SelectSeq(items, LAMBDA it : it.product # pid))

IsPositiveInteger(x) == x.t = "int" /\ x.v >= 1

\* The first failure among the items of an updateCart body, "" if none.
RECURSIVE ValidateItems(_)
ValidateItems(items) ==
    IF items = <<>> THEN ""
    ELSE IF ResolveProduct(Head(items).product) # ""
    THEN ResolveProduct(Head(items).product)
    ELSE IF ~IsPositiveInteger(Head(items).quantity) THEN "InvalidQuantity"
    ELSE ValidateItems(Tail(items))

\* updateCart validates every item, then replaces the whole list.
CartUpdateCart(items, body) ==
    IF ValidateItems(body) # "" THEN Err(ValidateItems(body))
    ELSE Ok([i \in 1..Len(body) |-> Item(body[i].product, body[i].quantity.v)])

CartUpdateProductQuantity(items, pid, quantity) ==
    IF pid = BadId THEN Err("CastError")
    ELSE IF ~HasProduct(items, pid) THEN Err("ProductNotFoundInCart")
    ELSE Ok([items EXCEPT ![FirstIndex(items, pid)].quantity = quantity])

CartClearCart(items) == Ok(<<>>)

\* cart.populate('products.product'): each reference is replaced by its
\* document, or by null when the document no longer exists; the line item
\* itself stays.
Populate(items) ==
    [i \in 1..Len(items) |->
        [product |-> IF ProductExists(items[i].product)
                     THEN items[i].product ELSE NullRef,
         quantity |-> items[i].quantity]]

\* Cart.findById(cid): "CastError", "null" or "found".
CartFindById(cid) ==
    IF cid = BadId THEN "CastError"
    ELSE IF cid \notin DOMAIN carts THEN "null"
    ELSE "found"

\* ---------------------------------------------------------- HTTP answers
NoBody == [isArray |-> FALSE, items |-> <<>>]
ArrayBody(items) == [isArray |-> TRUE, items |-> items]

\* A request: the route (op), the :cid and :pid parameters, for addProduct
\* the quantity the handler works with, for updateCart req.body.products.
Request(op, cid, pid, quantity) ==
    [op |-> op, cid |-> cid, pid |-> pid, quantity |-> quantity, body |-> NoBody]

\* How many successful addProduct requests for the same cart and product
\* have now been answered in a row, counted from one that found the product
\* absent from the cart (0 when this answer is not part of such a run; runs
\* longer than two count as two).
AddRun(req, code) ==
    IF req.op # "addProduct" \/ code # 200 THEN 0
    ELSE IF ~HasProduct(carts[req.cid], req.pid) THEN 1
    ELSE IF /\ resp.op = "addProduct" /\ resp.code = 200 /\ resp.adds >= 1
            /\ resp.cid = req.cid /\ resp.pid = req.pid
    THEN 2
    ELSE 0

\* The answer: the request it answers, the status code, the payload, and
\* whether serving the request changed the stored line items.
Answer(req, code, payload, changed) ==
    [op |-> req.op, cid |-> req.cid, pid |-> req.pid, quantity |-> req.quantity,
     body |-> req.body, code |-> code, payload |-> payload, changed |-> changed,
     adds |-> AddRun(req, code)]

Rejected(req, code) == Answer(req, code, <<>>, FALSE)

RECURSIVE Units(_)
Units(items) ==
    IF items = <<>> THEN 0 ELSE Head(items).quantity + Units(Tail(items))

\* The bound of the exploration: a cart holds at most MaxUnits units.
WithinBounds(items) == Units(items) <= MaxUnits

\* A cart mutation route after Cart.findById succeeded: the model method's
\* result is persisted and answered 200, its failure is answered 400.
SaveAndAnswer(req, result) ==
    IF result.ok
    THEN /\ WithinBounds(result.items)
         /\ carts' = [carts EXCEPT ![req.cid] = result.items]
         /\ resp' = Answer(req, 200, Populate(result.items),
                            result.items # carts[req.cid])
    ELSE /\ carts' = carts
         /\ resp' = Rejected(req, 400)

\* The findById part shared by the cart routes: 400 on CastError, 404 when
\* the cart does not exist.
CartLookupFails(req) == CartFindById(req.cid) # "found"

AnswerLookupFailure(req) ==
    /\ carts' = carts
    /\ resp' = Rejected(req, IF CartFindById(req.cid) = "CastError" THEN 400 ELSE 404)

\* ------------------------------------------------------------ cart routes
\* POST /api/carts
PostCart ==
    /\ \E cid \in CartIds :
        /\ cid \notin DOMAIN carts
        /\ \A c \in CartIds : c < cid => c \in DOMAIN carts
        /\ carts' = [c \in DOMAIN carts \cup {cid} |->
                        IF c = cid THEN <<>> ELSE carts[c]]
        /\ resp' = Answer(Request("createCart", cid, BadId, 0), 201, <<>>, FALSE)
    /\ UNCHANGED products

\* GET /api/carts/:cid
GetCart(cid) ==
    LET req == Request("getCart", cid, BadId, 0) IN
    /\ IF CartLookupFails(req)
       THEN AnswerLookupFailure(req)
       ELSE /\ carts' = carts
            /\ resp' = Answer(req, 200, Populate(carts[cid]), FALSE)
    /\ UNCHANGED products

\* The quantity check of POST /api/carts/:cid/product/:pid, on the value
\* of parseInt(req.body.quantity) || 1 (always an integer).
AddQuantityRejected(quantity) == quantity < 1

\* PostCartProduct always appending a line item.
PostCartProductAppending(cid, pid, rawQuantity) ==
    LET quantity == OrDefault(ParseInt(rawQuantity), 1)
        req == Request("addProduct", cid, pid, quantity)
    IN
    /\ IF AddQuantityRejected(quantity)
       THEN carts' = carts /\ resp' = Rejected(req, 400)
       ELSE IF CartLookupFails(req)
       THEN AnswerLookupFailure(req)
       ELSE SaveAndAnswer(req,
                IF ResolveProduct(pid) # "" THEN Err(ResolveProduct(pid))
                ELSE Ok(Append(carts[cid], Item(pid, quantity))))
    /\ UNCHANGED products

\* POST /api/carts/:cid/product/:pid
PostCartProduct(cid, pid, rawQuantity) ==
    LET quantity == OrDefault(ParseInt(rawQuantity), 1)
        req == Request("addProduct", cid, pid, quantity)
    IN
    /\ IF AddQuantityRejected(quantity)
       THEN carts' = carts /\ resp' = Rejected(req, 400)
       ELSE IF CartLookupFails(req)
       THEN AnswerLookupFailure(req)
       ELSE SaveAndAnswer(req, CartAddProduct(carts[cid], pid, quantity))
    /\ UNCHANGED products

\* DeleteCartProduct answering 404 when the cart has no such line item.
DeleteCartProductStrict(cid, pid) ==
    LET req == Request("removeProduct", cid, pid, 0) IN
    /\ IF CartLookupFails(req)
       THEN AnswerLookupFailure(req)
       ELSE IF ~HasProduct(carts[cid], pid)
       THEN carts' = carts /\ resp' = Rejected(req, 404)
       ELSE SaveAndAnswer(req, CartRemoveProduct(carts[cid], pid))
    /\ UNCHANGED products

\* DELETE /api/carts/:cid/products/:pid
DeleteCartProduct(cid, pid) ==
    LET req == Request("removeProduct", cid, pid, 0) IN
    /\ IF CartLookupFails(req)
       THEN AnswerLookupFailure(req)
       ELSE SaveAndAnswer(req, CartRemoveProduct(carts[cid], pid))
    /\ UNCHANGED products

\* The items of a body that precede its first invalid item.
RECURSIVE ValidPrefix(_)
ValidPrefix(items) ==
    IF items = <<>> \/ ValidateItems(<<Head(items)>>) # "" THEN <<>>
    ELSE <<Item(Head(items).product, Head(items).quantity.v)>> \o ValidPrefix(Tail(items))

\* PutCart with the items saved one by one until one fails.
PutCartItemByItem(cid, body) ==
    LET req == [Request("updateCart", cid, BadId, 0) EXCEPT !.body = body] IN
    /\ IF ~body.isArray
       THEN carts' = carts /\ resp' = Rejected(req, 400)
       ELSE IF CartLookupFails(req)
       THEN AnswerLookupFailure(req)
       ELSE IF ValidateItems(body.items) = ""
       THEN SaveAndAnswer(req, CartUpdateCart(carts[cid], body.items))
       ELSE /\ WithinBounds(ValidPrefix(body.items))
            /\ carts' = [carts EXCEPT ![cid] = ValidPrefix(body.items)]
            /\ resp' = Rejected(req, 400)
    /\ UNCHANGED products

\* PUT /api/carts/:cid
PutCart(cid, body) ==
    LET req == [Request("updateCart", cid, BadId, 0) EXCEPT !.body = body] IN
    /\ IF ~body.isArray
       THEN carts' = carts /\ resp' = Rejected(req, 400)
       ELSE IF CartLookupFails(req)
       THEN AnswerLookupFailure(req)
       ELSE SaveAndAnswer(req, CartUpdateCart(carts[cid], body.items))
    /\ UNCHANGED products

\* The check with "quantity < 0" for "quantity < 1".
SetQuantityRejectedBelowZero(quantity) ==
    quantity.t = "undef" \/ ~NumberIsInteger(quantity) \/ quantity.v < 0

\* The quantity check of PUT /api/carts/:cid/products/:pid.
SetQuantityRejected(quantity) ==
    quantity.t = "undef" \/ ~NumberIsInteger(quantity) \/ quantity.v < 1

\* PutCartProduct calling cart.addProduct for cart.updateProductQuantity.
PutCartProductAdding(cid, pid, quantity) ==
    LET req == Request("updateProductQuantity", cid, pid, 0) IN
    /\ IF SetQuantityRejected(quantity)
       THEN carts' = carts /\ resp' = Rejected(req, 400)
       ELSE IF CartLookupFails(req)
       THEN AnswerLookupFailure(req)
       ELSE SaveAndAnswer(req, CartAddProduct(carts[cid], pid, quantity.v))
    /\ UNCHANGED products

\* PUT /api/carts/:cid/products/:pid
PutCartProduct(cid, pid, quantity) ==
    LET req == Request("updateProductQuantity", cid, pid, 0) IN
    /\ IF SetQuantityRejected(quantity)
       THEN carts' = carts /\ resp' = Rejected(req, 400)
       ELSE IF CartLookupFails(req)
       THEN AnswerLookupFailure(req)
       ELSE SaveAndAnswer(req, CartUpdateProductQuantity(carts[cid], pid, quantity.v))
    /\ UNCHANGED products

\* DELETE /api/carts/:cid (the cart is answered without populate)
DeleteCart(cid) ==
    LET req == Request("clearCart", cid, BadId, 0) IN
    /\ IF CartLookupFails(req)
       THEN AnswerLookupFailure(req)
       ELSE /\ carts' = [carts EXCEPT ![cid] = CartClearCart(carts[cid]).items]
            /\ resp' = Answer(req, 200, <<>>, carts[cid] # <<>>)
    /\ UNCHANGED products

\* ------------------------------------------------------------- cart view
\* The lines GET /carts/:cid renders: the populated line items whose
\* product is not null, each with its subtotal (in cents).
ProductsWithSubtotal(items) ==
    LET kept == SelectSeq(Populate(items), LAMBDA it : it.product # NullRef) IN
    [i \in 1..Len(kept) |->
        [product |-> kept[i].product, quantity |-> kept[i].quantity,
         subtotal |-> Price(kept[i].product) * kept[i].quantity]]

\* GET /carts/:cid
ViewCart(cid) ==
    LET req == Request("viewCart", cid, BadId, 0) IN
    /\ IF CartLookupFails(req)
       THEN AnswerLookupFailure(req)
       ELSE /\ carts' = carts
            /\ resp' = Answer(req, 200, ProductsWithSubtotal(carts[cid]), FALSE)
    /\ UNCHANGED products

\* DELETE /api/products/:pid served while no real-time client is connected
\* (io.emit reaches nobody).
DeleteProductNoClients(pid) ==
    LET req == Request("deleteProduct", BadId, pid, 0) IN
    /\ IF pid = BadId
       THEN products' = products /\ resp' = Rejected(req, 400)
       ELSE IF ~ProductExists(pid)
       THEN products' = products /\ resp' = Rejected(req, 404)
       ELSE /\ products' = {d \in products : d.id # pid}
            /\ resp' = Answer(req, 200, <<>>, FALSE)
    /\ UNCHANGED carts

\* -------------------------------------------- the server while it serves
\* No product listing is being served.
NoListing == [pc |-> "none"]

\* The server process. pc: "off" (not running) or where startServer is:
\* "connect", "countProducts", "insertMany", "countCarts", "saveCart" (the
\* call it awaits), "listen" (initializeSampleData returned), "listening".
\* boots counts the starts; connected and seeded tell whether
\* database.connect() and initializeSampleData() have returned in this run;
\* before holds the collections as they were when the process started.
BootState(pc, boots, connected, seeded, before) ==
    [pc |-> pc, boots |-> boots, connected |-> connected, seeded |-> seeded,
     before |-> before]

Collections == [products |-> products, carts |-> carts]

\* startServer has run to httpServer.listen over an empty store, and the
\* process is not started again.
Listening ==
    BootState("listening", 1, TRUE, TRUE, [products |-> {}, carts |-> <<>>])

\* ------------------------------------------------- the cart specification
RequestCartIds == {BadId, UnknownCart} \cup CartIds
\* The product ids of the cart requests: malformed, or a seeded product
\* (which names no product once it is deleted).
RequestProductIds == {BadId} \cup SeedIds

BodyItems == {[product |-> p, quantity |-> q] :
                p \in SeedIds, q \in BodyQuantities}

RECURSIVE SeqsUpTo(_, _)
SeqsUpTo(S, n) ==
    IF n = 0 THEN {<<>>}
    ELSE SeqsUpTo(S, n - 1)
         \cup {Append(s, x) : s \in {t \in SeqsUpTo(S, n - 1) : Len(t) = n - 1}, x \in S}

\* req.body.products: not an array, or an array of up to two items.
Bodies == {NoBody} \cup {ArrayBody(b) : b \in SeqsUpTo(BodyItems, 2)}

Init ==
    /\ products = {ProductDoc(id) : id \in 1..SeedProducts}
    /\ nextId = SeedProducts + 1
    /\ clients = [c \in Clients |-> "off"]
    /\ handlers = <<>>
    /\ out = <<>>
    /\ carts = <<>>
    /\ resp = [op |-> "none", cid |-> BadId, pid |-> BadId, quantity |-> 0,
               body |-> NoBody,
               code |-> 0, payload |-> <<>>, changed |-> FALSE, adds |-> 0]
    /\ listing = NoListing
    /\ boot = Listening
    /\ serving = <<>>

NextCart ==
    \/ PostCart
    \/ \E cid \in RequestCartIds : GetCart(cid)
    \/ \E cid \in RequestCartIds, pid \in RequestProductIds, q \in QuantityInputs :
            PostCartProduct(cid, pid, q)
    \/ \E cid \in RequestCartIds, pid \in RequestProductIds : DeleteCartProduct(cid, pid)
    \/ \E cid \in RequestCartIds, body \in Bodies : PutCart(cid, body)
    \/ \E cid \in RequestCartIds, pid \in RequestProductIds, q \in QuantityInputs :
            PutCartProduct(cid, pid, q)
    \/ \E cid \in RequestCartIds : DeleteCart(cid)
    \/ \E cid \in RequestCartIds : ViewCart(cid)
    \/ \E pid \in RequestProductIds : DeleteProductNoClients(pid)

\* The cart routes and the catalog deletion, served one request at a time.
Next == NextCart /\ UNCHANGED <<rtVars, auxVars>>

Spec == Init /\ [][Next]_vars

\* ================================================================= boot
\* node app.js: startServer() begins with await database.connect().
Start ==
    /\ boot.pc = "off"
    /\ boot.boots < MaxBoots
    /\ boot' = BootState("connect", boot.boots + 1, FALSE, FALSE, Collections)
    /\ UNCHANGED <<products, cartVars, rtVars, listing, serving>>

\* The process ends (it is stopped, or crashes) wherever it is.
Stop ==
    /\ boot.pc # "off"
    /\ boot' = [boot EXCEPT !.pc = "off"]
    /\ UNCHANGED <<products, cartVars, rtVars, listing, serving>>

\* database.connect() resolves; initializeSampleData() begins with
\* await Product.countDocuments().
DbConnect ==
    /\ boot.pc = "connect"
    /\ boot' = [boot EXCEPT !.pc = "countProducts", !.connected = TRUE]
    /\ UNCHANGED <<products, cartVars, rtVars, listing, serving>>

\* database.connect() rejects: the catch block of startServer calls
\* process.exit(1).
DbConnectFails ==
    /\ boot.pc = "connect"
    /\ boot' = [boot EXCEPT !.pc = "off"]
    /\ UNCHANGED <<products, cartVars, rtVars, listing, serving>>

\* The samples are inserted whatever the count is.
SeedNeededAlways(count) == TRUE

\* if (productsCount === 0), if (cartsCount === 0)
SeedNeeded(count) == count = 0

\* Product.countDocuments() resolves.
CountProducts ==
    /\ boot.pc = "countProducts"
    /\ boot' = [boot EXCEPT !.pc = IF SeedNeeded(Cardinality(products))
                                   THEN "insertMany" ELSE "countCarts"]
    /\ UNCHANGED <<products, cartVars, rtVars, listing, serving>>

\* The first n sample products, with the identifiers the store assigns.
Samples(n) ==
    {[id |-> nextId + k - 1, code |-> k, createdAt |-> nextId + k - 1] : k \in 1..n}

\* Product.insertMany(SAMPLE_PRODUCTS) resolves.
InsertMany ==
    /\ boot.pc = "insertMany"
    /\ products' = products \cup Samples(SeedProducts)
    /\ nextId' = nextId + SeedProducts
    /\ boot' = [boot EXCEPT !.pc = "countCarts"]
    /\ UNCHANGED <<cartVars, clients, handlers, out, listing, serving>>

\* Product.insertMany rejects after n of the samples were written; the
\* catch block of initializeSampleData logs the error.
InsertManyFails(n) ==
    /\ boot.pc = "insertMany"
    /\ products' = products \cup Samples(n)
    /\ nextId' = nextId + n
    /\ boot' = [boot EXCEPT !.pc = "listen", !.seeded = TRUE]
    /\ UNCHANGED <<cartVars, clients, handlers, out, listing, serving>>

\* Cart.countDocuments() resolves.
CountCarts ==
    /\ boot.pc = "countCarts"
    /\ boot' = IF SeedNeeded(Cardinality(DOMAIN carts))
               THEN [boot EXCEPT !.pc = "saveCart"]
               ELSE [boot EXCEPT !.pc = "listen", !.seeded = TRUE]
    /\ UNCHANGED <<products, cartVars, rtVars, listing, serving>>

\* new Cart().save() resolves.
SaveCart ==
    /\ boot.pc = "saveCart"
    /\ \E cid \in CartIds :
        /\ cid \notin DOMAIN carts
        /\ \A c \in CartIds : c < cid => c \in DOMAIN carts
        /\ carts' = [c \in DOMAIN carts \cup {cid} |->
                        IF c = cid THEN <<>> ELSE carts[c]]
    /\ boot' = [boot EXCEPT !.pc = "listen", !.seeded = TRUE]
    /\ UNCHANGED <<products, resp, rtVars, listing, serving>>

\* A countDocuments() or the cart's save() rejects: the catch block of
\* initializeSampleData logs the error.
SeedingFails ==
    /\ boot.pc \in {"countProducts", "countCarts", "saveCart"}
    /\ boot' = [boot EXCEPT !.pc = "listen", !.seeded = TRUE]
    /\ UNCHANGED <<products, cartVars, rtVars, listing, serving>>

\* httpServer.listen(PORT)
Listen ==
    /\ boot.pc = "listen"
    /\ boot' = [boot EXCEPT !.pc = "listening"]
    /\ UNCHANGED <<products, cartVars, rtVars, listing, serving>>

\* The listening server serves requests that write to the collections.
Serve ==
    /\ boot.pc = "listening"
    /\ \/ PostCart
       \/ \E pid \in {d.id : d \in products} : DeleteProductNoClients(pid)
    /\ UNCHANGED <<rtVars, auxVars>>

\* The store of a machine on which the server never ran.
InitBoot ==
    /\ products = {}
    /\ nextId = 1
    /\ clients = [c \in Clients |-> "off"]
    /\ handlers = <<>>
    /\ out = <<>>
    /\ carts = <<>>
    /\ resp = [op |-> "none", cid |-> BadId, pid |-> BadId, quantity |-> 0,
               body |-> NoBody,
               code |-> 0, payload |-> <<>>, changed |-> FALSE, adds |-> 0]
    /\ listing = NoListing
    /\ boot = BootState("off", 0, FALSE, FALSE, Collections)
    /\ serving = <<>>

NextBoot ==
    \/ Start
    \/ Stop
    \/ DbConnect
    \/ DbConnectFails
    \/ CountProducts
    \/ InsertMany
    \/ \E n \in 0..(SeedProducts - 1) : InsertManyFails(n)
    \/ CountCarts
    \/ SaveCart
    \/ SeedingFails
    \/ Listen
    \/ Serve

\* The server process started, stopped and started again over its store.
SpecBoot == InitBoot /\ [][NextBoot]_vars

\* ======================================================= product listing
\* A string of req.query: its letters, trimmed and lower-cased (word),
\* whether white space surrounds them (pad) and whether some letter is in
\* upper case (upper). Absent is undefined (the parameter is not in the URL).
Str(word, pad, upper) == [def |-> TRUE, word |-> word, pad |-> pad, upper |-> upper]
Lit(word) == Str(word, FALSE, FALSE)
Absent == [def |-> FALSE, word |-> "", pad |-> FALSE, upper |-> FALSE]

\* if (s): undefined and the empty string are falsy.
Truthy(s) == s.def /\ ~(s.word = "" /\ ~s.pad)
\* s.trim()
Trim(s) == [s EXCEPT !.pad = FALSE]
\* s.toLowerCase()
ToLowerCase(s) == [s EXCEPT !.upper = FALSE]

Max(a, b) == IF a >= b THEN a ELSE b

DefaultLimit == 10
DefaultPage == 1

\* The filter given to Product.paginate: the category to match (Absent when
\* the filter has no category) and the status ("unset", "true", "false").
NoFilter == [category |-> Absent, status |-> "unset"]
Bool(b) == IF b THEN "true" ELSE "false"

\* The filter of GET /api/products with the category taken from the
\* lower-cased query.
ApiFilterLowerCased(q) ==
    LET f1 == IF Truthy(q.category)
              THEN [NoFilter EXCEPT !.category = Trim(q.category)] ELSE NoFilter
        f2 == IF q.status.def
              THEN [f1 EXCEPT !.status =
                        Bool(q.status \in {Lit("true"), Lit("1"), Lit("yes")})]
              ELSE f1
        queryLower == ToLowerCase(Trim(q.query))
    IN
    IF Truthy(q.query) /\ ~Truthy(q.category) /\ ~q.status.def
    THEN IF queryLower \in {Lit("true"), Lit("false"), Lit("disponible"),
                            Lit("no disponible")}
         THEN [f2 EXCEPT !.status =
                    Bool(queryLower \in {Lit("true"), Lit("disponible")})]
         ELSE [f2 EXCEPT !.category = queryLower]
    ELSE f2

\* The filter of GET /api/products.
ApiFilter(q) ==
    LET f1 == IF Truthy(q.category)
              THEN [NoFilter EXCEPT !.category = Trim(q.category)] ELSE NoFilter
        f2 == IF q.status.def
              THEN [f1 EXCEPT !.status =
                        Bool(q.status \in {Lit("true"), Lit("1"), Lit("yes")})]
              ELSE f1
        queryLower == ToLowerCase(Trim(q.query))
    IN
    IF Truthy(q.query) /\ ~Truthy(q.category) /\ ~q.status.def
    THEN IF queryLower \in {Lit("true"), Lit("false"), Lit("disponible"),
                            Lit("no disponible")}
         THEN [f2 EXCEPT !.status =
                    Bool(queryLower \in {Lit("true"), Lit("disponible")})]
         ELSE [f2 EXCEPT !.category = Trim(q.query)]
    ELSE f2

\* The filter of GET /products.
ViewFilter(q) ==
    LET f1 == IF Truthy(q.category)
              THEN [NoFilter EXCEPT !.category = Trim(q.category)] ELSE NoFilter
        f2 == IF q.status.def
              THEN [f1 EXCEPT !.status =
                        Bool(q.status \in {Lit("true"), Lit("1"), Lit("yes")})]
              ELSE f1
        queryLower == ToLowerCase(Trim(q.query))
    IN
    IF Truthy(q.query) /\ ~Truthy(q.category) /\ ~q.status.def
    THEN IF queryLower \in {Lit("true"), Lit("false"), Lit("disponible"),
                            Lit("no disponible")}
         THEN [f2 EXCEPT !.status =
                    Bool(queryLower \in {Lit("true"), Lit("disponible")})]
         ELSE [f2 EXCEPT !.category = Trim(q.query)]
    ELSE f2

\* options.sort: { price: 1 }, { price: -1 } or not set.
SortSpec(q) ==
    IF q.sort = Lit("asc") THEN "price:1"
    ELSE IF q.sort = Lit("desc") THEN "price:-1"
    ELSE "none"

\* Math.max(1, parseInt(req.query.limit) || 10), the same for page.
ApiLimit(q) == Max(1, OrDefault(ParseInt(q.limit), DefaultLimit))
ApiPage(q) == Max(1, OrDefault(ParseInt(q.page), DefaultPage))

\* parseInt(req.query.limit) || 10, the same for page.
ViewLimit(q) == OrDefault(ParseInt(q.limit), DefaultLimit)
ViewPage(q) == OrDefault(ParseInt(q.page), DefaultPage)

\* ---- the catalog as the listing sees it
\* The category and the status of the sample products.
ProductCategory(id) ==
    IF id = 1 THEN Str("laptops", FALSE, TRUE) ELSE Str("smartphones", FALSE, TRUE)
ProductStatus(id) == TRUE

Matching(filter) ==
    {d \in products :
        /\ filter.category.def => ProductCategory(d.id) = filter.category
        /\ filter.status # "unset" => Bool(ProductStatus(d.id)) = filter.status}

\* prevPage / nextPage when there is no such page (null).
NoPage == 0

\* Product.paginate(filter, { page, limit }) for page >= 1 and limit >= 1.
Paginate(filter, page, limit) ==
    LET totalDocs == Cardinality(Matching(filter))
        totalPages == (totalDocs + limit - 1) \div limit
    IN [ok |-> TRUE, totalDocs |-> totalDocs, totalPages |-> totalPages,
        page |-> page,
        hasPrevPage |-> page > 1, hasNextPage |-> page < totalPages,
        prevPage |-> IF page > 1 THEN page - 1 ELSE NoPage,
        nextPage |-> IF page < totalPages THEN page + 1 ELSE NoPage]

PaginateError ==
    [ok |-> FALSE, totalDocs |-> 0, totalPages |-> 0, page |-> 0,
     hasPrevPage |-> FALSE, hasNextPage |-> FALSE,
     prevPage |-> NoPage, nextPage |-> NoPage]

\* What Product.paginate may answer. For a page or a limit below 1 its
\* contract says nothing: the call fails, or it is served with the nearest
\* valid value.
PaginateResults(filter, page, limit) ==
    IF page >= 1 /\ limit >= 1 THEN {Paginate(filter, page, limit)}
    ELSE {PaginateError, Paginate(filter, Max(1, page), Max(1, limit))}

\* ---- navigation links
\* The link has no limit parameter.
NoLimit == 0

\* buildQueryString(pageNum) of GET /api/products.
ApiQueryString(q, limit, pageNum) ==
    [page |-> pageNum,
     limit |-> IF limit # DefaultLimit THEN limit ELSE NoLimit,
     sort |-> IF Truthy(q.sort) THEN q.sort ELSE Absent,
     query |-> IF Truthy(q.query) THEN q.query ELSE Absent,
     category |-> IF Truthy(q.category) THEN q.category ELSE Absent,
     status |-> IF q.status.def THEN q.status ELSE Absent]

\* buildQueryParams(pageNum) of GET /products.
ViewQueryParams(q, limit, pageNum) ==
    [page |-> pageNum,
     limit |-> IF limit # DefaultLimit THEN limit ELSE NoLimit,
     sort |-> IF Truthy(q.sort) THEN q.sort ELSE Absent,
     query |-> IF Truthy(q.query) THEN q.query ELSE Absent,
     category |-> IF Truthy(q.category) THEN q.category ELSE Absent,
     status |-> IF q.status.def THEN q.status ELSE Absent]

NoParams == ApiQueryString([sort |-> Absent, query |-> Absent, category |-> Absent,
                            status |-> Absent], DefaultLimit, NoPage)
NoLink == [path |-> "null", params |-> NoParams]
Link(path, params) == [path |-> path, params |-> params]

\* ---- the two listing routes
ListingAnswer(endpoint, q, filter, page, limit, r, prevLink, nextLink) ==
    [pc |-> "done", endpoint |-> endpoint, q |-> q,
     filter |-> filter, sort |-> SortSpec(q), page |-> page, limit |-> limit,
     code |-> IF r.ok THEN 200 ELSE 500, result |-> r,
     prevLink |-> IF r.ok THEN prevLink ELSE NoLink,
     nextLink |-> IF r.ok THEN nextLink ELSE NoLink]

\* GET /api/products
GetProducts ==
    /\ listing.pc = "pending"
    /\ LET q == listing.q
           limit == ApiLimit(q)
           page == ApiPage(q)
           filter == ApiFilter(q)
       IN \E r \in PaginateResults(filter, page, limit) :
            listing' = ListingAnswer("/api/products", q, filter, page, limit, r,
                IF r.hasPrevPage
                THEN Link("/api/products", ApiQueryString(q, limit, r.prevPage))
                ELSE NoLink,
                IF r.hasNextPage
                THEN Link("/api/products", ApiQueryString(q, limit, r.nextPage))
                ELSE NoLink)
    /\ UNCHANGED <<products, cartVars, rtVars, boot, serving>>

\* GET /products
ViewProducts ==
    /\ listing.pc = "pending"
    /\ LET q == listing.q
           limit == ViewLimit(q)
           page == ViewPage(q)
           filter == ViewFilter(q)
       IN \E r \in PaginateResults(filter, page, limit) :
            listing' = ListingAnswer("/products", q, filter, page, limit, r,
                IF r.hasPrevPage
                THEN Link("/products", ViewQueryParams(q, limit, r.prevPage))
                ELSE NoLink,
                IF r.hasNextPage
                THEN Link("/products", ViewQueryParams(q, limit, r.nextPage))
                ELSE NoLink)
    /\ UNCHANGED <<products, cartVars, rtVars, boot, serving>>

\* ---- the query parameters tried
LimitInputs == {Undef, NaNStr, FracStr(2)} \cup {StrV(n) : n \in {-1, 0, 1, DefaultLimit}}
PageInputs == {Undef, NaNStr} \cup {StrV(n) : n \in -1..MaxPage}
SortInputs == {Absent, Lit(""), Lit("asc"), Lit("desc"), Str("asc", FALSE, TRUE)}
QueryInputs ==
    {Absent, Lit(""), Str("", TRUE, FALSE), Lit("true"), Lit("no disponible"),
     Str("disponible", TRUE, TRUE), Str("laptops", FALSE, TRUE),
     Str("laptops", TRUE, TRUE)}
CategoryInputs == {Absent, Lit(""), Str("laptops", TRUE, TRUE), Str("smartphones", FALSE, TRUE)}
StatusInputs ==
    {Absent, Lit(""), Lit("true"), Lit("1"), Lit("yes"), Lit("false"),
     Str("true", FALSE, TRUE)}

ListQueries ==
    [limit : LimitInputs, page : PageInputs, sort : SortInputs,
     query : QueryInputs, category : CategoryInputs, status : StatusInputs]

\* A listing request has arrived at the running server.
InitList ==
    /\ products = {ProductDoc(id) : id \in 1..SeedProducts}
    /\ nextId = SeedProducts + 1
    /\ clients = [c \in Clients |-> "off"]
    /\ handlers = <<>>
    /\ out = <<>>
    /\ carts = <<>>
    /\ resp = [op |-> "none", cid |-> BadId, pid |-> BadId, quantity |-> 0,
               body |-> NoBody,
               code |-> 0, payload |-> <<>>, changed |-> FALSE, adds |-> 0]
    /\ listing \in {[pc |-> "pending", q |-> q] : q \in ListQueries}
    /\ boot = Listening
    /\ serving = <<>>

NextList == GetProducts \/ ViewProducts

\* The listing of the catalog, by the API and by the view.
SpecList == InitList /\ [][NextList]_vars

\* ====================================================== real-time channel
\* Product.find().sort({ createdAt: -1 }).lean(): every document, the most
\* recently created first.
RECURSIVE SortByCreatedAtDesc(_)
SortByCreatedAtDesc(docs) ==
    IF docs = {} THEN <<>>
    ELSE LET m == CHOOSE d \in docs : \A e \in docs : e.createdAt <= d.createdAt
         IN <<m>> \o SortByCreatedAtDesc(docs \ {m})

\* The data of a create or update (req.body): the product code it carries
\* (NoCode when an update leaves the code alone), whether it passes the
\* schema validation, and the values it carries for _id and createdAt
\* (NoValue when the field is not in the body).
NoCode == 0
NoValue == 0
Codes == ProductIds
ProductData(code, valid) ==
    [code |-> code, valid |-> valid, setId |-> NoValue, setCreatedAt |-> NoValue]
CreateInputs == {ProductData(c, TRUE) : c \in Codes} \cup {ProductData(NoCode, FALSE)}

\* An identifier and a timestamp no product has.
Forged == SeedProducts + MaxNew + 1

\* Update bodies that also carry _id and createdAt.
ForgedInputs ==
    {[ProductData(c, TRUE) EXCEPT !.setId = Forged, !.setCreatedAt = Forged] :
        c \in {NoCode, SeedProducts + 1}}

UpdateInputs == {ProductData(c, TRUE) : c \in Codes \cup {NoCode}}
                    \cup {ProductData(NoCode, FALSE)} \cup ForgedInputs

\* The body findByIdAndUpdate is given when nothing is deleted from it.
StripProtectedNothing(data) == data

\* delete req.body._id; delete req.body.createdAt;
StripProtected(data) == [data EXCEPT !.setId = NoValue, !.setCreatedAt = NoValue]

\* The document after the update: every field the body carries is set.
ApplyUpdate(d, body) ==
    [id |-> IF body.setId # NoValue THEN body.setId ELSE d.id,
     code |-> IF body.code # NoCode THEN body.code ELSE d.code,
     createdAt |-> IF body.setCreatedAt # NoValue THEN body.setCreatedAt
                   ELSE d.createdAt]

\* save() with the schema validation alone, without the unique index.
SaveErrorValidationOnly(data) ==
    IF ~data.valid THEN "ValidationError" ELSE ""

\* newProduct.save(): "" on success, else the error's name. The unique index
\* on code belongs to the Product schema.
SaveError(data) ==
    IF ~data.valid THEN "ValidationError"
    ELSE IF \E d \in products : d.code = data.code THEN "DuplicateKey"
    ELSE ""

\* Product.findByIdAndUpdate(pid, body, { new: true, runValidators: true }):
\* "" on success, "null" when no document has the id, else the error's name.
UpdateError(pid, data) ==
    IF pid = BadId THEN "CastError"
    ELSE IF ~data.valid THEN "ValidationError"
    ELSE IF ~ProductExists(pid) THEN "null"
    ELSE IF data.code # NoCode /\ \E d \in products : d.id # pid /\ d.code = data.code
    THEN "DuplicateKey"
    ELSE ""

\* Product.findByIdAndDelete(pid): "", "null" or "CastError".
DeleteError(pid) ==
    IF pid = BadId THEN "CastError"
    ELSE IF ~ProductExists(pid) THEN "null"
    ELSE ""

\* A request or event being served. kind: "post", "put", "delete" (HTTP),
\* "addProduct", "deleteProduct" (socket events), "connection". pc: the
\* store call it waits for ("write", "find"), "resume" (the list arrived,
\* the rest of the handler has not run yet), "done", or "lost" (an event no
\* listener received). answers counts the answers sent to the caller. doc
\* is the document the store call returned (newProduct, updatedProduct,
\* deletedProduct). order is the handler's rank among the handlers that
\* ran to their end (0 until then).
NoDoc == [id |-> BadId, code |-> NoCode, createdAt |-> NoValue]

Handler(kind, client, pid, data, pc) ==
    [kind |-> kind, client |-> client, pid |-> pid, data |-> data, pc |-> pc,
     snap |-> <<>>, findOk |-> FALSE, answers |-> 0, result |-> "",
     doc |-> NoDoc, order |-> 0]

NoData == ProductData(NoCode, FALSE)
HandlerIds == 1..Len(handlers)
Connected == {c \in Clients : clients[c] \in {"connecting", "open"}}

\* Messages: a socket event sent to a set of clients, or an HTTP answer.
Event(h, ev, to, list) ==
    [h |-> h, ev |-> ev, to |-> to, list |-> list, code |-> 0, payload |-> NoDoc]
HttpAnswer(h, code) ==
    [h |-> h, ev |-> "http", to |-> {}, list |-> <<>>, code |-> code,
     payload |-> NoDoc]

\* socket.emit(ev, ...) reaches the socket's client while it is connected.
SocketEmit(h, ev, list) ==
    Event(h, ev, {handlers[h].client} \cap Connected, list)

\* io.emit('products', list) reaches every connected client.
IoEmit(h, list) == Event(h, "products", Connected, list)

Ended == {h \in HandlerIds : handlers[h].pc = "done"}

Finish(h, result, answered) ==
    [handlers EXCEPT ![h].pc = "done", ![h].result = result,
                     ![h].answers = @ + (IF answered THEN 1 ELSE 0),
                     ![h].order = Cardinality(Ended) + 1]

\* ---- arrivals
\* A client connects: io.on('connection') starts and awaits Product.find().
Connect(c) ==
    /\ clients[c] = "off"
    /\ Len(handlers) < MaxRequests
    /\ clients' = [clients EXCEPT ![c] = "connecting"]
    /\ handlers' = Append(handlers, Handler("connection", c, BadId, NoData, "find"))
    /\ out' = <<>>
    /\ UNCHANGED <<products, nextId, cartVars, auxVars>>

\* socket.on('disconnect')
Disconnect(c) ==
    /\ clients[c] \in {"connecting", "open"}
    /\ clients' = [clients EXCEPT ![c] = "closed"]
    /\ out' = <<>>
    /\ UNCHANGED <<products, nextId, handlers, cartVars, auxVars>>

\* An HTTP request to /api/products arrives.
HttpArrives(kind, pid, data) ==
    /\ Len(handlers) < MaxRequests
    /\ handlers' = Append(handlers, Handler(kind, 0, pid, data, "write"))
    /\ out' = <<>>
    /\ UNCHANGED <<products, nextId, clients, cartVars, auxVars>>

\* A connected client emits addProduct or deleteProduct. The listeners are
\* registered only after the connection handler's await: until then the
\* event has no listener and is dropped.
ClientEmits(c, kind, pid, data) ==
    /\ c \in Connected
    /\ Len(handlers) < MaxRequests
    /\ handlers' = Append(handlers,
            Handler(kind, c, pid, data, IF clients[c] = "open" THEN "write" ELSE "lost"))
    /\ out' = <<>>
    /\ UNCHANGED <<products, nextId, clients, cartVars, auxVars>>

\* ---- the answers of a failed store call
\* The catch blocks of the HTTP routes: the status for an error.
HttpErrorCode(err) ==
    IF err = "null" THEN 404
    ELSE IF err \in {"CastError", "ValidationError", "DuplicateKey"} THEN 400
    ELSE 500

IsSocketKind(kind) == kind \in {"addProduct", "deleteProduct"}

ErrorAnswer(h, err) ==
    IF IsSocketKind(handlers[h].kind)
    THEN SocketEmit(h, "productError", <<>>)
    ELSE HttpAnswer(h, HttpErrorCode(err))

\* ---- the store write of a mutation
WriteError(h) ==
    LET r == handlers[h] IN
    IF r.kind \in {"post", "addProduct"} THEN SaveError(r.data)
    ELSE IF r.kind = "put" THEN UpdateError(r.pid, r.data)
    ELSE DeleteError(r.pid)

WriteEffect(h) ==
    LET r == handlers[h] IN
    IF r.kind \in {"post", "addProduct"}
    THEN /\ nextId \in ProductIds
         /\ products' = products \cup
                {[id |-> nextId, code |-> r.data.code, createdAt |-> nextId]}
         /\ nextId' = nextId + 1
    ELSE IF r.kind = "put"
    THEN /\ products' = {IF d.id = r.pid THEN ApplyUpdate(d, StripProtected(r.data))
                         ELSE d : d \in products}
         /\ nextId' = nextId
    ELSE /\ products' = {d \in products : d.id # r.pid}
         /\ nextId' = nextId

\* What the store call returns: the saved document, the document after the
\* update ({ new: true }), the deleted document.
WriteResult(h) ==
    LET r == handlers[h] IN
    IF r.kind \in {"post", "addProduct"}
    THEN [id |-> nextId, code |-> r.data.code, createdAt |-> nextId]
    ELSE LET d == CHOOSE d \in products : d.id = r.pid IN
         IF r.kind = "put" THEN ApplyUpdate(d, StripProtected(r.data)) ELSE d

\* save / findByIdAndUpdate / findByIdAndDelete runs; on an error or a
\* missing document the handler answers and ends.
Write(h) ==
    /\ handlers[h].pc = "write"
    /\ IF WriteError(h) # ""
       THEN /\ handlers' = Finish(h, "error", TRUE)
            /\ out' = <<ErrorAnswer(h, WriteError(h))>>
            /\ UNCHANGED <<products, nextId>>
       ELSE /\ WriteEffect(h)
            /\ handlers' = [handlers EXCEPT ![h].pc = "find", ![h].doc = WriteResult(h)]
            /\ out' = <<>>
    /\ UNCHANGED <<clients, cartVars, auxVars>>

\* ---- the list query
\* Product.find().sort({ createdAt: -1 }).lean() runs in the store.
Find(h) ==
    /\ handlers[h].pc = "find"
    /\ handlers' = [handlers EXCEPT ![h].pc = "resume", ![h].findOk = TRUE,
                                    ![h].snap = SortByCreatedAtDesc(products)]
    /\ out' = <<>>
    /\ UNCHANGED <<products, nextId, clients, cartVars, auxVars>>

\* The list query fails in the store layer.
FindFails(h) ==
    /\ handlers[h].pc = "find"
    /\ handlers' = [handlers EXCEPT ![h].pc = "resume", ![h].findOk = FALSE]
    /\ out' = <<>>
    /\ UNCHANGED <<products, nextId, clients, cartVars, auxVars>>

\* ---- the rest of each handler, run when the list query has answered
SuccessAnswer(h) ==
    LET k == handlers[h].kind IN
    IF k = "addProduct" THEN SocketEmit(h, "productAdded", <<>>)
    ELSE IF k = "deleteProduct" THEN SocketEmit(h, "productDeleted", <<>>)
    ELSE [HttpAnswer(h, IF k = "post" THEN 201 ELSE 200)
            EXCEPT !.payload = handlers[h].doc]

\* The answer sent before the broadcast.
MutationMessagesAnswerFirst(h) == <<SuccessAnswer(h), IoEmit(h, handlers[h].snap)>>

\* What a mutation handler sends once the list arrived: the broadcast, then
\* the answer to the caller.
MutationMessages(h) == <<IoEmit(h, handlers[h].snap), SuccessAnswer(h)>>

\* A mutation handler resumes: io.emit('products', products) and the
\* success answer; the catch block's answer if the list query failed.
ResumeMutation(h) ==
    /\ handlers[h].pc = "resume"
    /\ handlers[h].kind # "connection"
    /\ IF handlers[h].findOk
       THEN /\ out' = MutationMessages(h)
            /\ handlers' = Finish(h, "success", TRUE)
       ELSE /\ out' = <<ErrorAnswer(h, "StoreError")>>
            /\ handlers' = Finish(h, "error", TRUE)
    /\ UNCHANGED <<products, nextId, clients, cartVars, auxVars>>

\* The connection handler resumes: socket.emit('products', products) unless
\* the query failed, then the listeners are registered.
ResumeConnection(h) ==
    /\ handlers[h].pc = "resume"
    /\ handlers[h].kind = "connection"
    /\ out' = IF handlers[h].findOk
              THEN <<SocketEmit(h, "products", handlers[h].snap)>> ELSE <<>>
    /\ handlers' = Finish(h, IF handlers[h].findOk THEN "success" ELSE "error",
                          handlers[h].findOk)
    /\ clients' = [clients EXCEPT ![handlers[h].client] =
                        IF @ = "connecting" THEN "open" ELSE @]
    /\ UNCHANGED <<products, nextId, cartVars, auxVars>>

NextReliable ==
    \/ \E c \in Clients : Connect(c)
    \/ \E c \in Clients : Disconnect(c)
    \/ \E data \in CreateInputs : HttpArrives("post", BadId, data)
    \/ \E pid \in {BadId} \cup ProductIds, data \in UpdateInputs :
            HttpArrives("put", pid, data)
    \/ \E pid \in {BadId} \cup ProductIds : HttpArrives("delete", pid, NoData)
    \/ \E c \in Clients, data \in CreateInputs : ClientEmits(c, "addProduct", BadId, data)
    \/ \E c \in Clients, pid \in {BadId} \cup ProductIds :
            ClientEmits(c, "deleteProduct", pid, NoData)
    \/ \E h \in HandlerIds : Write(h)
    \/ \E h \in HandlerIds : Find(h)
    \/ \E h \in HandlerIds : ResumeMutation(h)
    \/ \E h \in HandlerIds : ResumeConnection(h)

NextRT ==
    \/ NextReliable
    \/ \E h \in HandlerIds : FindFails(h)

\* The catalog routes and the real-time channel, handlers interleaved at
\* their awaits.
SpecRT == Init /\ [][NextRT]_vars

\* The same with a store whose list query never fails.
SpecReliable == Init /\ [][NextReliable]_vars

\* ============================================== concurrent cart requests
MaxServing == 2

\* A cart mutation being served. pc: the store call the handler waits for
\* ("load": Cart.findById; "method": the model method's product lookup;
\* "save": the save of the document; "answer": populate), or "done". loaded
\* holds the line items of the document findById returned, items those of
\* the handler's document now, code and payload the answer, among the
\* handlers that held a document of the same cart when this one loaded it.
CartHandler(req, pc, code) ==
    [req |-> req, pc |-> pc, code |-> code, loaded |-> <<>>, items |-> <<>>,
     payload |-> <<>>, among |-> {}]

ServingIds == 1..Len(serving)

\* The handlers that hold a document of the cart and have not answered yet.
Holding(cid) ==
    {h \in ServingIds : /\ serving[h].req.cid = cid
                        /\ serving[h].pc \in {"method", "save", "answer"}}

\* A request arrives: the checks before the first await answer 400, else
\* the handler awaits Cart.findById.
CartArrives(req, rejected) ==
    /\ Len(serving) < MaxServing
    /\ serving' = Append(serving, IF rejected THEN CartHandler(req, "done", 400)
                                  ELSE CartHandler(req, "load", 0))
    /\ UNCHANGED <<products, cartVars, rtVars, listing, boot>>

\* POST /api/carts/:cid/product/:pid
ArrivesPostCartProduct(cid, pid, rawQuantity) ==
    LET quantity == OrDefault(ParseInt(rawQuantity), 1) IN
    CartArrives(Request("addProduct", cid, pid, quantity),
                AddQuantityRejected(quantity))

\* DELETE /api/carts/:cid/products/:pid
ArrivesDeleteCartProduct(cid, pid) ==
    CartArrives(Request("removeProduct", cid, pid, 0), FALSE)

\* PUT /api/carts/:cid
ArrivesPutCart(cid, body) ==
    CartArrives([Request("updateCart", cid, BadId, 0) EXCEPT !.body = body],
                ~body.isArray)

\* PUT /api/carts/:cid/products/:pid
ArrivesPutCartProduct(cid, pid, quantity) ==
    CartArrives(Request("updateProductQuantity", cid, pid,
                        IF SetQuantityRejected(quantity) THEN 0 ELSE quantity.v),
                SetQuantityRejected(quantity))

\* DELETE /api/carts/:cid
ArrivesDeleteCart(cid) ==
    CartArrives(Request("clearCart", cid, BadId, 0), FALSE)

\* Cart.findById(cid) answers: 400 on CastError, 404 when the cart does not
\* exist, else the handler holds the document as it is stored now.
CartLoad(h) ==
    LET req == serving[h].req IN
    /\ serving[h].pc = "load"
    /\ serving' =
         IF CartLookupFails(req)
         THEN [serving EXCEPT ![h].pc = "done",
                 ![h].code = IF CartFindById(req.cid) = "CastError" THEN 400 ELSE 404]
         ELSE [serving EXCEPT ![h].pc = "method",
                 ![h].loaded = carts[req.cid], ![h].items = carts[req.cid],
                 ![h].among = Holding(req.cid)]
    /\ UNCHANGED <<products, cartVars, rtVars, listing, boot>>

\* The model method each route calls, on the line items of a document.
CartMethod(req, items) ==
    CASE req.op = "addProduct" -> CartAddProduct(items, req.pid, req.quantity)
      [] req.op = "removeProduct" -> CartRemoveProduct(items, req.pid)
      [] req.op = "updateCart" -> CartUpdateCart(items, req.body.items)
      [] req.op = "updateProductQuantity" ->
            CartUpdateProductQuantity(items, req.pid, req.quantity)
      [] OTHER -> CartClearCart(items)

\* The catch blocks: 400, except for a failure of clearCart that is not a
\* CastError.
CartErrorCode(req, err) ==
    IF err # "CastError" /\ req.op = "clearCart" THEN 500 ELSE 400

\* The method runs on the handler's document: its failure is answered, else
\* the changed document is handed to save().
CartRunMethod(h) ==
    LET req == serving[h].req
        result == CartMethod(req, serving[h].items)
    IN
    /\ serving[h].pc = "method"
    /\ IF result.ok
       THEN /\ WithinBounds(result.items)
            /\ serving' = [serving EXCEPT ![h].pc = "save", ![h].items = result.items]
       ELSE serving' = [serving EXCEPT ![h].pc = "done",
                            ![h].code = CartErrorCode(req, result.err)]
    /\ UNCHANGED <<products, cartVars, rtVars, listing, boot>>

\* save() of the handler's document: its line items become the stored ones.
CartSave(h) ==
    /\ serving[h].pc = "save"
    /\ carts' = [carts EXCEPT ![serving[h].req.cid] = serving[h].items]
    /\ serving' = [serving EXCEPT ![h].pc = "answer"]
    /\ UNCHANGED <<products, resp, rtVars, listing, boot>>

\* The handler's document is answered with 200, populated except by
\* DELETE /api/carts/:cid.
CartRespond(h) ==
    /\ serving[h].pc = "answer"
    /\ serving' = [serving EXCEPT ![h].pc = "done", ![h].code = 200,
                     ![h].payload = IF serving[h].req.op = "clearCart"
                                    THEN serving[h].items
                                    ELSE Populate(serving[h].items)]
    /\ UNCHANGED <<products, cartVars, rtVars, listing, boot>>

\* The carts the store holds when the requests arrive.
StoredItems == {<<>>, <<Item(1, 1)>>}

\* The bodies and quantities of the concurrent requests.
ConcurrentBodies == {NoBody} \cup {ArrayBody(b) : b \in SeqsUpTo(BodyItems, 1)}
ConcurrentQuantities == {IntV(0), IntV(1), IntV(2), Undef}

InitConcurrent ==
    /\ products = {ProductDoc(id) : id \in 1..SeedProducts}
    /\ nextId = SeedProducts + 1
    /\ clients = [c \in Clients |-> "off"]
    /\ handlers = <<>>
    /\ out = <<>>
    /\ carts \in {[c \in CartIds |-> items] : items \in StoredItems}
    /\ resp = [op |-> "none", cid |-> BadId, pid |-> BadId, quantity |-> 0,
               body |-> NoBody,
               code |-> 0, payload |-> <<>>, changed |-> FALSE, adds |-> 0]
    /\ listing = NoListing
    /\ boot = Listening
    /\ serving = <<>>

NextConcurrent ==
    \/ \E cid \in RequestCartIds, pid \in RequestProductIds,
          q \in ConcurrentQuantities : ArrivesPostCartProduct(cid, pid, q)
    \/ \E cid \in RequestCartIds, pid \in RequestProductIds :
            ArrivesDeleteCartProduct(cid, pid)
    \/ \E cid \in RequestCartIds, body \in ConcurrentBodies : ArrivesPutCart(cid, body)
    \/ \E cid \in RequestCartIds, pid \in RequestProductIds,
          q \in ConcurrentQuantities : ArrivesPutCartProduct(cid, pid, q)
    \/ \E cid \in RequestCartIds : ArrivesDeleteCart(cid)
    \/ \E h \in ServingIds : CartLoad(h)
    \/ \E h \in ServingIds : CartRunMethod(h)
    \/ \E h \in ServingIds : CartSave(h)
    \/ \E h \in ServingIds : CartRespond(h)

\* The cart mutation routes, their handlers interleaved at their awaits.
SpecConcurrent == InitConcurrent /\ [][NextConcurrent]_vars

\* ======================================================= cart properties
Lines(items, pid) == {i \in 1..Len(items) : items[i].product = pid}
Others(items, pid) == SelectSeq(items, LAMBDA it : it.product # pid)

\* C1: in every reachable state every cart holds at most one line item per
\* distinct product identifier.
C1_OneLinePerProduct ==
    \A c \in DOMAIN carts : \A p \in ProductIds :
        Cardinality(Lines(carts[c], p)) <= 1

\* C2: a successful addProduct of a product the cart does not hold appends
\* one line item with the given quantity and leaves the others as they
\* were; a second successful addProduct for the same cart and product right
\* after it leaves exactly one line item for the product, holding the sum
\* of both quantities, and again leaves the others as they were.
C2_AddTwiceSums ==
    [][\A cid \in CartIds, pid \in SeedIds, q \in 1..MaxUnits :
        (/\ cid \in DOMAIN carts
         /\ PostCartProduct(cid, pid, IntV(q))
         /\ resp'.code = 200)
        => /\ ~HasProduct(carts[cid], pid)
                => carts'[cid] = Append(carts[cid], Item(pid, q))
           /\ (/\ resp.op = "addProduct" /\ resp.code = 200 /\ resp.adds = 1
               /\ resp.cid = cid /\ resp.pid = pid)
                => /\ carts[cid] = Append(Others(carts[cid], pid), Item(pid, resp.quantity))
                   /\ carts'[cid] = Append(Others(carts[cid], pid),
                                           Item(pid, resp.quantity + q))]_vars

\* Two successful addProduct requests for one product were served in a
\* row, the first on a cart without the product, next to another line item.
C2_Witness ==
    /\ resp.op = "addProduct" /\ resp.code = 200 /\ resp.adds = 2
    /\ Len(carts[resp.cid]) = 2

\* The quantities the claim C3 lists: 0, negative, non-integer, non-numeric.
NotAPositiveInteger(x) ==
    \/ x.t = "int" /\ x.v < 1
    \/ x.t = "frac"
    \/ x.t = "nanstr"

\* C3: an addProduct request whose quantity is not a positive integer is
\* answered with an error and leaves every cart unchanged.
C3_BadQuantityRejected ==
    [][\A cid \in RequestCartIds, pid \in RequestProductIds, q \in QuantityInputs :
        (NotAPositiveInteger(q) /\ PostCartProduct(cid, pid, q))
        => (resp'.code >= 400 /\ carts' = carts)]_vars

\* The items of an updateCart body are all valid: every product is in the
\* catalog and every quantity is a positive integer.
AllItemsValid(items) ==
    \A i \in 1..Len(items) :
        /\ \E d \in products : d.id = items[i].product
        /\ items[i].quantity.t = "int" /\ items[i].quantity.v >= 1

\* C4: updateCart is all-or-nothing: with an invalid item the request fails
\* and the carts are as before; with valid items only, the cart holds
\* exactly the submitted list, in order.
C4_UpdateCartAllOrNothing ==
    [][\A cid \in CartIds :
        (/\ cid \in DOMAIN carts
         /\ resp'.op = "updateCart" /\ resp'.cid = cid /\ resp'.body.isArray
         /\ PutCart(cid, resp'.body))
        => LET items == resp'.body.items IN
           IF AllItemsValid(items)
           THEN /\ resp'.code = 200
                /\ Len(carts'[cid]) = Len(items)
                /\ \A i \in 1..Len(items) :
                     /\ carts'[cid][i].product = items[i].product
                     /\ carts'[cid][i].quantity = items[i].quantity.v
           ELSE resp'.code >= 400 /\ carts' = carts]_vars

\* An updateCart request whose first item is valid and whose second is not
\* failed on a cart that holds line items.
C4_Witness ==
    /\ resp.op = "updateCart" /\ resp.code = 400
    /\ resp.cid \in DOMAIN carts /\ carts[resp.cid] # <<>>
    /\ Len(resp.body.items) = 2
    /\ AllItemsValid(<<resp.body.items[1]>>)
    /\ ~AllItemsValid(<<resp.body.items[2]>>)

\* C5: updateProductQuantity with a positive integer q sets the quantity of
\* the product's line item to q and leaves the other line items unchanged;
\* when the cart has no such line item it fails and changes nothing.
C5_SetQuantityAbsolute ==
    [][\A cid \in CartIds, pid \in SeedIds, q \in 1..MaxUnits :
        (cid \in DOMAIN carts /\ PutCartProduct(cid, pid, IntV(q)))
        => IF HasProduct(carts[cid], pid)
           THEN /\ resp'.code = 200
                /\ \E i \in Lines(carts[cid], pid) :
                        carts'[cid] = [carts[cid] EXCEPT ![i] = Item(pid, q)]
           ELSE resp'.code >= 400 /\ carts' = carts]_vars

\* updateProductQuantity changed a line item of a cart holding two.
C5_Witness ==
    /\ resp.op = "updateProductQuantity" /\ resp.code = 200 /\ resp.changed
    /\ Len(carts[resp.cid]) = 2

\* C6: removeProduct on an existing cart succeeds whether or not the cart
\* holds the product; without the product the cart is unchanged, and after
\* it the cart does not hold the product (so a second removeProduct is the
\* unchanged case).
C6_RemoveIdempotent ==
    [][\A cid \in CartIds, pid \in SeedIds :
        (cid \in DOMAIN carts /\ DeleteCartProduct(cid, pid))
        => /\ resp'.code = 200
           /\ ~HasProduct(carts'[cid], pid)
           /\ carts'[cid] = Others(carts[cid], pid)
           /\ ~HasProduct(carts[cid], pid) => carts' = carts]_vars

\* removeProduct was answered with success on a non-empty cart that did not
\* hold the product.
C6_Witness ==
    /\ resp.op = "removeProduct" /\ resp.code = 200 /\ ~resp.changed
    /\ carts[resp.cid] # <<>>

\* C7: every line item of every stored cart has an integer quantity >= 1.
C7_PositiveQuantities ==
    \A c \in DOMAIN carts : \A i \in 1..Len(carts[c]) :
        carts[c][i].quantity \in Nat \ {0}

\* A request with an invalid quantity was refused on a cart with line items.
C7_Witness ==
    /\ resp.op \in {"addProduct", "updateProductQuantity", "updateCart"}
    /\ resp.code = 400
    /\ resp.cid \in DOMAIN carts /\ carts[resp.cid] # <<>>

\* C8: a successful read of a cart with details (GET /api/carts/:cid or the
\* /carts/:cid view) returns no line item for a product that is no longer
\* in the catalog.
C8_ReadDropsDeleted ==
    (resp.op \in {"getCart", "viewCart"} /\ resp.code = 200)
    => \A i \in 1..Len(resp.payload) : resp.payload[i].product # NullRef

\* ================================================== real-time properties
\* list holds every document of docs once, the most recently created first.
IsFullListNewestFirst(list, docs) ==
    /\ {list[i] : i \in 1..Len(list)} = docs
    /\ \A i, j \in 1..Len(list) : i < j => list[i].createdAt > list[j].createdAt

IsSuccessAnswer(m) ==
    \/ m.ev \in {"productAdded", "productDeleted"}
    \/ m.ev = "http" /\ m.code \in {200, 201}

\* C9: the list a catalog mutation recomputes holds every product, the most
\* recently created first, and whenever a mutation (HTTP or socket) is
\* answered with success, a products event carrying that list was sent to
\* every client connected at that moment, before the answer.
C9_BroadcastBeforeAnswer ==
    [][\A h \in HandlerIds :
        /\ (/\ handlers[h].pc = "find"
            /\ handlers'[h].pc = "resume" /\ handlers'[h].findOk)
           => IsFullListNewestFirst(handlers'[h].snap, products)
        /\ (/\ handlers[h].kind # "connection"
            /\ handlers[h].pc # "done"
            /\ handlers'[h].pc = "done" /\ handlers'[h].result = "success")
           => \E j \in 1..Len(out') :
                /\ out'[j].h = h /\ IsSuccessAnswer(out'[j])
                /\ \E i \in 1..(j - 1) :
                     /\ out'[i].ev = "products"
                     /\ out'[i].to = Connected
                     /\ out'[i].list = handlers[h].snap]_vars

\* A mutation was answered with success while a client was connected: the
\* server's last step sent the list to that client, then the answer.
C9_Witness ==
    /\ Len(out) = 2
    /\ out[1].ev = "products" /\ out[1].to # {} /\ Len(out[1].list) >= 2
    /\ IsSuccessAnswer(out[2])

\* No handler is waiting for the store or for its turn.
Quiescent == \A h \in HandlerIds : handlers[h].pc \in {"done", "lost"}

\* C10: once every handler has run to its end, every client that connected
\* (and still is connected) was sent its products event, and every
\* addProduct or deleteProduct event such a client emitted was answered
\* exactly once.
C10_EveryEventAnswered ==
    Quiescent =>
        \A h \in HandlerIds :
            handlers[h].client \in Connected => handlers[h].answers = 1

\* ====================================================== catalog properties
UniqueCodes == \A d, e \in products : d.code = e.code => d.id = e.id

\* The create or update of handler h would give a product the code of
\* another product of the catalog.
CodeCollides(h) ==
    LET r == handlers[h] IN
    /\ r.kind \in {"post", "addProduct", "put"}
    /\ r.data.code # NoCode
    /\ \E d \in products :
            d.code = r.data.code /\ (r.kind = "put" => d.id # r.pid)

\* C11: no two products of the catalog have the same code, and the store
\* call of a create or update (HTTP or socket) whose code is the code of
\* another product ends the handler with an error answer and leaves the
\* catalog unchanged.
C11_UniqueCodes ==
    /\ []UniqueCodes
    /\ [][\A h \in HandlerIds :
            (handlers[h].pc = "write" /\ handlers'[h].pc # "write" /\ CodeCollides(h))
            => /\ handlers'[h].pc = "done" /\ handlers'[h].result = "error"
               /\ products' = products
               /\ \E i \in 1..Len(out') :
                    /\ out'[i].h = h
                    /\ out'[i].ev = "productError"
                       \/ (out'[i].ev = "http" /\ out'[i].code >= 400)]_vars

\* Two creates carried the same new code: one was saved and answered with
\* success, the other ended with an error, and one product was created.
C11_Witness ==
    \E h1, h2 \in HandlerIds :
        /\ h1 # h2
        /\ handlers[h1].kind \in {"post", "addProduct"}
        /\ handlers[h2].kind \in {"post", "addProduct"}
        /\ handlers[h1].data.code = handlers[h2].data.code
        /\ handlers[h1].result = "success"
        /\ handlers[h2].result = "error" /\ handlers[h2].data.valid
        /\ nextId = SeedProducts + 2
        /\ Cardinality(products) = SeedProducts + 1

\* ====================================================== listing properties
\* The availability the status parameter stands for.
StatusFilter(status) ==
    [category |-> Absent,
     status |-> IF status \in {Lit("true"), Lit("1"), Lit("yes")}
                THEN "true" ELSE "false"]

\* C12: in a listing, a category that is present makes the filter the exact
\* match of the trimmed category and nothing else; the status makes the
\* filter only when no category is present; the query is used only when
\* neither is present; with none of the three the filter is empty. (A
\* category or query counts as present when it is a non-empty string, a
\* status when it is in the URL.)
C12_FilterPrecedence ==
    listing.pc = "done" =>
        LET q == listing.q
            f == listing.filter
        IN
        /\ Truthy(q.category)
            => f = [category |-> Trim(q.category), status |-> "unset"]
        /\ (~Truthy(q.category) /\ q.status.def) => f = StatusFilter(q.status)
        /\ (~Truthy(q.category) /\ ~q.status.def /\ ~Truthy(q.query)) => f = NoFilter

AvailabilityWords ==
    {Lit("true"), Lit("false"), Lit("disponible"), Lit("no disponible")}

C14_LimitAndPage ==
    listing.pc = "done" =>
        /\ listing.limit >= 1
        /\ listing.page >= 1
        /\ listing.q.limit \in {Undef, NaNStr} => listing.limit = DefaultLimit
        /\ listing.q.page \in {Undef, NaNStr} => listing.page = DefaultPage
        /\ listing.code = 200

\* C15: for the parameters of a listing, GET /api/products and
\* GET /products compute the same filter, sort, page and limit (the ones
\* the answer was computed with), and serving the listing changes no
\* stored product or cart.
C15_SameResolution ==
    /\ [](listing.pc = "done" =>
            LET q == listing.q IN
            /\ <<ApiFilter(q), SortSpec(q), ApiPage(q), ApiLimit(q)>>
                    = <<ViewFilter(q), SortSpec(q), ViewPage(q), ViewLimit(q)>>
            /\ <<listing.filter, listing.sort, listing.page, listing.limit>>
                    = <<ApiFilter(q), SortSpec(q), ApiPage(q), ApiLimit(q)>>)
    /\ [][listing' # listing => UNCHANGED <<products, carts>>]_vars

\* The parameters of a link: the page, the limit unless it is 10, and
\* every other parameter the request supplied, as supplied.
LinkCarries(params, pageNum) ==
    LET q == listing.q IN
    /\ params.page = pageNum
    /\ params.limit = (IF listing.limit = DefaultLimit THEN NoLimit ELSE listing.limit)
    /\ Truthy(q.sort) => params.sort = q.sort
    /\ Truthy(q.query) => params.query = q.query
    /\ Truthy(q.category) => params.category = q.category
    /\ q.status.def => params.status = q.status

\* C16: in the answer of a listing, prevLink is null exactly when page - 1
\* is not a page of the result, nextLink is null exactly when page + 1 is
\* not; a link that is not null has the path of the request and carries
\* the neighbouring page, the limit unless it is 10, and the other
\* parameters of the request. (Stated for the listings whose page and
\* limit are at least 1, the ones the store's contract covers.)
C16_Links ==
    (/\ listing.pc = "done" /\ listing.code = 200
     /\ listing.page >= 1 /\ listing.limit >= 1) =>
        LET pages == 1..listing.result.totalPages IN
        /\ listing.prevLink.path = "null" <=> (listing.page - 1) \notin pages
        /\ listing.nextLink.path = "null" <=> (listing.page + 1) \notin pages
        /\ listing.prevLink.path # "null"
            => /\ listing.prevLink.path = listing.endpoint
               /\ LinkCarries(listing.prevLink.params, listing.page - 1)
        /\ listing.nextLink.path # "null"
            => /\ listing.nextLink.path = listing.endpoint
               /\ LinkCarries(listing.nextLink.params, listing.page + 1)

\* ================================================= error-code properties
\* The routes whose URL names a cart, and those whose URL names a product.
CartOps == {"getCart", "addProduct", "removeProduct", "updateCart",
            "updateProductQuantity", "clearCart", "viewCart"}
ProductOps == {"addProduct", "updateProductQuantity", "deleteProduct"}

\* The answer r is to a request whose identifiers are well formed and
\* whose body is valid, as far as the answer records it.
WellFormedRequest(r) ==
    /\ r.op \in CartOps => r.cid # BadId
    /\ r.op \in ProductOps \cup {"removeProduct"} => r.pid # BadId
    /\ r.op = "addProduct" => r.quantity >= 1
    /\ r.op = "updateCart"
        => /\ r.body.isArray
           /\ \A i \in 1..Len(r.body.items) :
                /\ r.body.items[i].product # BadId
                /\ IsPositiveInteger(r.body.items[i].quantity)

\* The request names a cart or a product that does not exist (for a cart
\* operation: a product of the request that is not in the catalog).
NamesMissingDocument(r) ==
    \/ r.op \in CartOps /\ r.cid \notin DOMAIN carts
    \/ r.op \in {"addProduct", "deleteProduct"} /\ ~ProductExists(r.pid)
    \/ /\ r.op = "updateCart"
       /\ \E i \in 1..Len(r.body.items) : ~ProductExists(r.body.items[i].product)

\* C17: a cart or product request with well-formed identifiers that names
\* a cart or a product that does not exist is answered 404 (400 or 404 for
\* updateProductQuantity, whose quantity the answer does not record); a
\* request with a malformed cart or product identifier, a quantity below
\* 1 or a products field that is not an array is answered 400; no request
\* is answered 500 while the store works.
C17_StatusCodes ==
    [][resp' # resp =>
        LET r == resp' IN
        /\ (WellFormedRequest(r) /\ NamesMissingDocument(r))
            => IF r.op = "updateProductQuantity" THEN r.code \in {400, 404}
               ELSE r.code = 404
        /\ (r.op \in CartOps /\ r.cid = BadId) => r.code = 400
        /\ (r.op \in ProductOps /\ r.pid = BadId
                /\ (r.op = "deleteProduct" \/ r.cid \in DOMAIN carts))
            => r.code = 400
        /\ (r.op = "addProduct" /\ r.quantity < 1) => r.code = 400
        /\ (r.op = "updateCart" /\ ~r.body.isArray) => r.code = 400
        /\ r.code # 500]_vars

\* ======================================================= update properties
\* The document of the catalog docs with identifier pid.
DocOf(docs, pid) == CHOOSE d \in docs : d.id = pid

\* C18: the store call of a product update (PUT /api/products/:pid) leaves
\* every other product as it was and keeps the identifier and createdAt of
\* the product it names, whatever the body carries; when the identifier
\* names no product the catalog is unchanged and the answer is an error
\* (404 for a well-formed identifier and a valid body); a successful update
\* is answered 200 with the document as the update left it.
C18_UpdateFrame ==
    [][\A h \in HandlerIds :
        /\ (handlers[h].kind = "put" /\ handlers[h].pc = "write"
                /\ handlers'[h].pc # "write")
            => LET pid == handlers[h].pid IN
               /\ \A d \in products : d.id # pid => d \in products'
               /\ {d.id : d \in products'} = {d.id : d \in products}
               /\ IF ProductExists(pid)
                  THEN /\ DocOf(products', pid).createdAt
                            = DocOf(products, pid).createdAt
                       /\ handlers'[h].pc = "find"
                            => handlers'[h].doc = DocOf(products', pid)
                  ELSE /\ products' = products
                       /\ handlers'[h].pc = "done"
                       /\ Len(out') = 1 /\ out'[1].ev = "http"
                       /\ out'[1].code \in {400, 404}
                       /\ (pid # BadId /\ handlers[h].data.valid)
                            => out'[1].code = 404
        /\ (handlers[h].kind = "put" /\ handlers[h].pc = "resume"
                /\ handlers'[h].result = "success")
            => \E i \in 1..Len(out') :
                /\ out'[i].ev = "http" /\ out'[i].code = 200
                /\ out'[i].payload = handlers[h].doc
                /\ out'[i].payload.id = handlers[h].pid]_vars

\* An update whose body carried _id, createdAt and a new code was answered
\* with success: the document answered has the new code.
C18_Witness ==
    \E i \in 1..Len(out) :
        /\ out[i].ev = "http" /\ out[i].code = 200
        /\ handlers[out[i].h].kind = "put"
        /\ handlers[out[i].h].data.setId = Forged
        /\ handlers[out[i].h].data.setCreatedAt = Forged
        /\ out[i].payload.id = handlers[out[i].h].pid
        /\ out[i].payload.code = SeedProducts + 1

\* ========================================================= boot properties
\* startServer is between its start and httpServer.listen.
Booting == boot.pc \notin {"off", "listening"}

\* C19: while the server boots, the product collection changes only by the
\* insertion of the samples into a collection that is empty at that moment,
\* and the cart collection only by the creation of one cart in an empty
\* collection; a collection that was not empty when the process started is
\* as it was all through the boot; and the server starts listening only
\* once database.connect() and initializeSampleData() have returned.
C19_SeedOnlyWhenEmpty ==
    /\ [](Booting =>
            /\ boot.before.products # {} => products = boot.before.products
            /\ DOMAIN boot.before.carts # {} => carts = boot.before.carts)
    /\ [][/\ (boot.pc # "listening" /\ products' # products)
               => /\ boot.pc = "insertMany"
                  /\ products = {}
                  /\ \A d \in products' : d.code \in 1..SeedProducts
          /\ (boot.pc # "listening" /\ carts' # carts)
               => /\ boot.pc = "saveCart"
                  /\ DOMAIN carts = {}
                  /\ Cardinality(DOMAIN carts') = 1
          /\ (boot.pc # "listening" /\ boot'.pc = "listening")
               => boot.connected /\ boot.seeded]_vars

\* The server was restarted over a store holding a cart and some, not all,
\* of the samples, and listens again with the store as it found it.
C19_Witness ==
    /\ boot.pc = "listening" /\ boot.boots >= 2
    /\ boot.before.products # {}
    /\ Cardinality(boot.before.products) < SeedProducts
    /\ DOMAIN boot.before.carts # {}
    /\ products = boot.before.products
    /\ carts = boot.before.carts

\* ==================================================== broadcast properties
\* The mutations that ran to their end with a broadcast.
Broadcasters ==
    {h \in HandlerIds : handlers[h].kind # "connection" /\ handlers[h].result = "success"}

\* The last of them to broadcast.
LastBroadcaster ==
    CHOOSE h \in Broadcasters :
        \A g \in Broadcasters : handlers[g].order <= handlers[h].order

\* C20: once no handler is in flight, the list of the last products
\* broadcast is the catalog as it is now (every product, the most recently
\* created first).
C20_LastBroadcastCurrent ==
    (Quiescent /\ Broadcasters # {})
    => handlers[LastBroadcaster].snap = SortByCreatedAtDesc(products)

\* ================================================ error-answer properties
IsErrorAnswer(m) ==
    \/ m.ev = "productError"
    \/ m.ev = "http" /\ m.code >= 400

\* The handler's store write went through (doc holds what it returned).
Persisted(h) == handlers[h].doc # NoDoc

\* C21: whenever a catalog mutation (HTTP or socket) is answered with an
\* error, the step that answers it leaves the catalog as it was and sends
\* no products event, and the handler's own save, update or delete was not
\* persisted: a failing list query after a persisted write never ends in
\* an error answer.
C21_ErrorLeavesCatalog ==
    [][\A h \in HandlerIds :
        (/\ handlers[h].kind # "connection"
         /\ handlers[h].pc # "done"
         /\ handlers'[h].pc = "done"
         /\ \E i \in 1..Len(out') : out'[i].h = h /\ IsErrorAnswer(out'[i]))
        => /\ products' = products
           /\ \A i \in 1..Len(out') : out'[i].ev # "products"
           /\ ~Persisted(h)]_vars

\* ============================================ concurrent-cart properties
OneLinePerProduct(items) ==
    \A p \in ProductIds : Cardinality(Lines(items, p)) <= 1

\* The handler was answered with success.
Succeeded(h) == serving[h].pc = "done" /\ serving[h].code = 200

\* Two handlers of one cart of which one loaded its document while the
\* other held one.
ServedConcurrently(a, b) ==
    /\ serving[a].req.cid = serving[b].req.cid
    /\ a \in serving[b].among \/ b \in serving[a].among

\* The handler's save has reached the store.
HasSaved(h) == serving[h].pc = "answer" \/ Succeeded(h)

\* The method of a, then the method of b, on the cart a loaded.
OneAfterTheOther(a, b) ==
    LET first == CartMethod(serving[a].req, serving[a].loaded) IN
    IF first.ok THEN CartMethod(serving[b].req, first.items) ELSE first

\* The line items after both mutations took effect, in either order.
BothApplied(a, b) ==
    {r.items : r \in {x \in {OneAfterTheOther(a, b), OneAfterTheOther(b, a)} : x.ok}}

\* C22: when two mutations of one cart were served concurrently and both
\* were answered with success (and no other request saved that cart), the
\* stored cart holds what applying both mutations, one after the other in
\* some order, yields, and it holds at most one line item per product if
\* the documents the two handlers saved did.
C22_NoLostUpdate ==
    \A a, b \in ServingIds :
        (/\ a # b
         /\ ServedConcurrently(a, b)
         /\ Succeeded(a) /\ Succeeded(b)
         /\ \A g \in ServingIds \ {a, b} :
                serving[g].req.cid = serving[a].req.cid => ~HasSaved(g))
        => /\ carts[serving[a].req.cid] \in BothApplied(a, b)
           /\ (OneLinePerProduct(serving[a].items) /\ OneLinePerProduct(serving[b].items))
                => OneLinePerProduct(carts[serving[a].req.cid])

====
